---- MODULE Spec2Model ----
(***************************************************************************)
(* One websocket session of the Robin backend: handle_audio_stream         *)
(* (app/api/websocket.py) running BedrockStreaming.stream_conversation     *)
(* (app/services/bedrock_streaming.py) with its two asyncio tasks, the     *)
(* client connection, the model's event stream, the session store          *)
(* (app/services/dynamodb.py) and the session_active marker                *)
(* (app/services/redis_cache.py).                                          *)
(*                                                                         *)
(* asyncio tasks interleave only at an await.  A send on the model         *)
(* transport (await input_stream.send) is two steps: the event is handed   *)
(* to the transport (appended to sent, the sender joins inflight) and the  *)
(* await completes (normally or by raising).  Synchronous calls            *)
(* (gateway.invoke_tool, db calls) are part of the step making them.       *)
(***************************************************************************)
EXTENDS Integers, Sequences, FiniteSets, TLC

\* ---------------------------------------------------------------- bounds
\* Messages the session receives from its two peers, client and model.
MaxInputs == 3
\* Largest latency (ms) a tool invocation measures.
MaxLatency == 1

\* ----------------------------------------------------------- identifiers
\* content_name and audio_content_name of stream_conversation: uuid4 values,
\* distinct from one another (0 stands for "no contentName").
content_name == 1
audio_content_name == 2

VARIABLES
    hpc,            \* position of handle_audio_stream / stream_conversation
    pendingExc,     \* an exception raised inside the handler's except block
    ipc,            \* position of input_task  (_process_audio_input)
    opc,            \* position of output_task (_process_output_events)
    hs,             \* index of the next handshake event
    sent,           \* events handed to stream_response.input_stream.send
    inflight,       \* senders whose await on send has not completed
    clientOpen,     \* the client is connected
    clientQ,        \* messages the client sent, not yet received
    nInputs,        \* messages sent so far by the client and by the model
    nToolUse,       \* number of toolUse events the model has emitted
    tool_use_id, tool_name, tool_content,   \* locals of _process_output_events
    result,         \* local: the invoke_tool result of the round trip
    nToolNames,     \* number of tool_result_content_name values generated
    toClient,       \* messages delivered to the client
    records,        \* items put into the tool-calls table
    turns,          \* items put into the messages table
    marker,         \* the key session_active:{id} exists in the cache
    nSet, nClear,   \* set / delete commands this run issued on the marker
    dbState,        \* state of the stored session record ("none": no record)
    lastEnd,        \* who last ran the end-of-session teardown, and its outcome
    cachedSession,  \* state in the cached session:{id} entry ("none": no entry)
    endSeen         \* the relay has received {"type":"end"}

vars == <<hpc, pendingExc, ipc, opc, hs, sent, inflight, clientOpen, clientQ,
          nInputs, nToolUse, tool_use_id,
          tool_name, tool_content, result, nToolNames, toClient, records,
          turns, marker, nSet, nClear, dbState, lastEnd, cachedSession,
          endSeen>>

handlerVars == <<hpc, pendingExc, hs>>
taskVars == <<ipc, opc>>
wireVars == <<sent, inflight>>
clientVars == <<clientOpen, clientQ>>
modelVars == <<nInputs, nToolUse>>
toolVars == <<tool_use_id, tool_name, tool_content, result, nToolNames>>
sinkVars == <<toClient, records, turns>>
storeVars == <<marker, nSet, nClear, dbState, lastEnd, cachedSession>>

\* ------------------------------------------------------------ wire events
None == "None"

Ev(kind, type, name, tuid, content) ==
    [kind |-> kind, type |-> type, name |-> name, tuid |-> tuid, content |-> content]

session_start == Ev("sessionStart", "", 0, 0, <<>>)
prompt_start == Ev("promptStart", "", 0, 0, <<>>)
system_content_start == Ev("contentStart", "TEXT", content_name, 0, <<>>)
system_text_input == Ev("textInput", "", content_name, 0, <<>>)
system_content_end == Ev("contentEnd", "", content_name, 0, <<>>)
audio_content_start == Ev("contentStart", "AUDIO", audio_content_name, 0, <<>>)
audio_content_end == Ev("contentEnd", "", audio_content_name, 0, <<>>)
prompt_end == Ev("promptEnd", "", 0, 0, <<>>)
session_end == Ev("sessionEnd", "", 0, 0, <<>>)

\* A coordinator that opens the audio content before the system prompt.
HandshakeAudioFirst ==
    <<session_start, prompt_start, audio_content_start, system_content_start,
      system_text_input, system_content_end>>

\* The order in which stream_conversation sends the initialization events.
Handshake ==
    <<session_start, prompt_start, system_content_start, system_text_input,
      system_content_end, audio_content_start>>

\* _send_raw_event up to its await: the event is handed to the transport.
SendBegin(who, ev) ==
    /\ sent' = Append(sent, ev)
    /\ inflight' = inflight \cup {who}

\* The value of the local `result` while no tool result is held.
NoResult ==
    [raised |-> FALSE, success |-> FALSE, result |-> None, error |-> None,
     latency_ms |-> 0]

\* ------------------------------------------------------------------ Init
Init ==
    /\ hpc = "idle"
    /\ pendingExc = FALSE
    /\ ipc = "unborn"
    /\ opc = "unborn"
    /\ hs = 1
    /\ sent = <<>>
    /\ inflight = {}
    /\ clientOpen = TRUE
    /\ clientQ = <<>>
    /\ nInputs = 0
    /\ nToolUse = 0
    /\ tool_use_id = 0
    /\ tool_name = None
    /\ tool_content = None
    /\ result = NoResult
    /\ nToolNames = 0
    /\ toClient = <<>>
    /\ records = <<>>
    /\ turns = <<>>
    /\ marker = FALSE
    /\ nSet = 0
    /\ nClear = 0
    /\ dbState = "none"
    /\ lastEnd = [by |-> None, outcome |-> None]
    /\ cachedSession = "none"
    /\ endSeen = FALSE

\* ------------------------------------------------- REST: start_session
\* POST /sessions/start creates the session record before the client opens
\* the websocket with the session id it was given, and caches the item it
\* created under session:{id}.
start_session ==
    /\ hpc = "idle"
    /\ dbState = "none"
    /\ dbState' = "active"
    /\ cachedSession' = "active"
    /\ UNCHANGED <<handlerVars, taskVars, wireVars, clientVars, modelVars,
                   toolVars, sinkVars, marker, nSet, nClear, lastEnd, endSeen>>

\* ------------------------------------------- handle_audio_stream: entry
\* The client opens the websocket with the session id start_session gave
\* it; await websocket.accept() is outside the try block.
Accept ==
    /\ hpc = "idle"
    /\ dbState = "active"
    /\ \E ok \in BOOLEAN : hpc' = IF ok THEN "mark" ELSE "refused"
    /\ UNCHANGED <<pendingExc, hs, taskVars, wireVars, clientVars, modelVars,
                   toolVars, sinkVars, storeVars, endSeen>>

\* The handler does not look the session id up: a websocket opened with an
\* id that start_session never issued is accepted just the same.
AcceptUnknown ==
    /\ hpc = "idle"
    /\ dbState = "none"
    /\ hpc' = "mark"
    /\ UNCHANGED <<pendingExc, hs, taskVars, wireVars, clientVars, modelVars,
                   toolVars, sinkVars, storeVars, endSeen>>

\* RedisCache.set: setex on the marker's key.  (RedisCache logs and swallows
\* a Redis error, which never changes the caller's control flow; the Redis
\* server is taken to be reachable.)
cache_set ==
    /\ marker' = TRUE
    /\ nSet' = nSet + 1

\* RedisCache.delete: delete on the marker's key; deleting an absent key is
\* not an error.
cache_delete ==
    /\ marker' = FALSE
    /\ nClear' = nClear + 1

\* cache.set(f"session_active:{session_id}", True, 600)
MarkActive ==
    /\ hpc = "mark"
    /\ cache_set
    /\ hpc' = "tools"
    /\ UNCHANGED <<pendingExc, hs, taskVars, wireVars, clientVars, modelVars,
                   toolVars, sinkVars, nClear, dbState, lastEnd, cachedSession,
                   endSeen>>

\* The marker is written once, with setex and a time to live of 600 seconds,
\* and never refreshed: Redis drops the key when that time has passed,
\* whatever the run is doing then.
MarkerExpires ==
    /\ marker
    /\ marker' = FALSE
    /\ UNCHANGED <<handlerVars, taskVars, wireVars, clientVars, modelVars,
                   toolVars, sinkVars, nSet, nClear, dbState, lastEnd,
                   cachedSession, endSeen>>

\* -------------------------------------------------- stream_conversation
\* tools = gateway.get_tool_definitions(): list_tools -> _call_mcp raises on
\* a gateway failure; the exception leaves stream_conversation.
GetTools ==
    /\ hpc = "tools"
    /\ \E ok \in BOOLEAN : hpc' = IF ok THEN "open" ELSE "except"
    /\ UNCHANGED <<pendingExc, hs, taskVars, wireVars, clientVars, modelVars,
                   toolVars, sinkVars, storeVars, endSeen>>

\* stream_response = await client.invoke_model_with_bidirectional_stream(...)
OpenStream ==
    /\ hpc = "open"
    /\ \E ok \in BOOLEAN : hpc' = IF ok THEN "hs" ELSE "except"
    /\ UNCHANGED <<pendingExc, hs, taskVars, wireVars, clientVars, modelVars,
                   toolVars, sinkVars, storeVars, endSeen>>

\* The initialization sends, none of them inside a try block: a send that
\* raises leaves stream_conversation at once.  After the last one the two
\* tasks are created and the coordinator awaits asyncio.gather.
HandshakeSend ==
    /\ hpc = "hs"
    /\ sent' = Append(sent, Handshake[hs])
    /\ \E ok \in BOOLEAN :
        IF ~ok
        THEN /\ hpc' = "except"
             /\ UNCHANGED <<hs, ipc, opc>>
        ELSE IF hs < Len(Handshake)
        THEN /\ hs' = hs + 1
             /\ UNCHANGED <<hpc, ipc, opc>>
        ELSE /\ hpc' = "gather"
             /\ ipc' = "recv"
             /\ opc' = "await"
             /\ UNCHANGED hs
    /\ UNCHANGED <<pendingExc, inflight, clientVars, modelVars, toolVars,
                   sinkVars, storeVars, endSeen>>

TaskDone(pc) == pc \in {"done", "raised", "cancelled"}

\* await asyncio.gather(input_task, output_task): resumes when both tasks
\* have finished, or as soon as one of them has raised.
GatherResumes ==
    \/ ipc = "raised"
    \/ opc = "raised"
    \/ (ipc = "done" /\ opc = "done")

\* A cancel() that the task ignores.
CancelIgnored(pc) == pc

\* task.cancel() in the finally block: the task gets CancelledError at the
\* await it is suspended in, the next time it runs.
Cancel(pc) == IF TaskDone(pc) THEN pc ELSE "cancelling"

\* The gather returns or raises (except Exception: log), then the finally
\* block cancels the unfinished tasks and starts the first closing send.
GatherDone ==
    /\ hpc = "gather"
    /\ GatherResumes
    /\ ipc' = Cancel(ipc)
    /\ opc' = Cancel(opc)
    /\ SendBegin("coordinator", audio_content_end)
    /\ hpc' = "td1"
    /\ UNCHANGED <<pendingExc, hs, clientVars, modelVars, toolVars, sinkVars,
                   storeVars, endSeen>>

\* What a closing send does when it completes normally.
TeardownNext(pc) ==
    CASE pc = "td1" -> [ev |-> <<prompt_end>>, pc |-> "td2"]
      [] pc = "td2" -> [ev |-> <<session_end>>, pc |-> "td3"]
      [] pc = "td3" -> [ev |-> <<>>, pc |-> "cleanup"]

\* A closing send completes, after the cancelled tasks have run (they were
\* scheduled before the coordinator suspended).  The three sends of the
\* finally block are not guarded one by one: the first that raises leaves
\* stream_conversation.
TeardownSendEnd ==
    /\ hpc \in {"td1", "td2", "td3"}
    /\ "cancelling" \notin {ipc, opc}
    /\ \E ok \in BOOLEAN :
        IF ok
        THEN /\ hpc' = TeardownNext(hpc).pc
             /\ sent' = sent \o TeardownNext(hpc).ev
             /\ inflight' = IF TeardownNext(hpc).ev = <<>>
                            THEN inflight \ {"coordinator"} ELSE inflight
        ELSE /\ hpc' = "except"
             /\ inflight' = inflight \ {"coordinator"}
             /\ UNCHANGED sent
    /\ UNCHANGED <<pendingExc, hs, taskVars, clientVars, modelVars, toolVars,
                   sinkVars, storeVars, endSeen>>

\* --------------------------------------- handle_audio_stream: exit paths
\* A message sent on the websocket: delivered while the client is connected.
ClientMsg(type, tool, res, latency) ==
    [type |-> type, tool |-> tool, result |-> res, latency_ms |-> latency]

\* An exception left stream_conversation (none of them can be a
\* WebSocketDisconnect: the generator and the dispatcher catch it).
\* except Exception: log, then await websocket.send_json({"type": "error"}).
\* On a closed connection the send raises or is dropped by the server; an
\* exception raised here propagates after the finally block has run.
HandlerExcept ==
    /\ hpc = "except"
    /\ hpc' = "cleanup"
    /\ \/ /\ clientOpen
          /\ toClient' = Append(toClient, ClientMsg("error", None, None, 0))
          /\ UNCHANGED pendingExc
       \/ /\ ~clientOpen
          /\ \E raises \in BOOLEAN : pendingExc' = raises
          /\ UNCHANGED toClient
    /\ UNCHANGED <<hs, taskVars, wireVars, clientVars, modelVars, toolVars,
                   records, turns, storeVars, endSeen>>

\* DynamoDBService.update_session_state: get_session(...)['start_time']
\* raises TypeError when get_session returns None (no item, or the query
\* raised); update_item may raise as well.  ok: neither happens.
update_session_state(ok) ==
    IF dbState = "none" \/ ~ok THEN dbState ELSE "ended"

\* What a teardown that called db.update_session_state experienced.
Ended(by, state, ok) ==
    [by |-> by,
     outcome |-> IF state = "none" THEN "not_found"
                 ELSE IF ~ok THEN "store_error" ELSE "ok"]

\* The finally block, which has no await: db.update_session_state(session_id,
\* "ended"), then cache.delete(f"session_active:{session_id}").  If the
\* update raises, the delete is skipped and the exception leaves the handler;
\* otherwise the handler returns, or re-raises what its except clause raised.
Cleanup ==
    /\ hpc = "cleanup"
    /\ \E ok \in BOOLEAN :
        /\ dbState' = update_session_state(ok)
        /\ lastEnd' = Ended("handler", dbState, ok)
        /\ IF dbState = "none" \/ ~ok
           THEN /\ hpc' = "raised"
                /\ UNCHANGED <<marker, nClear>>
           ELSE /\ hpc' = IF pendingExc THEN "raised" ELSE "returned"
                /\ cache_delete
    /\ UNCHANGED <<pendingExc, hs, taskVars, wireVars, clientVars, modelVars,
                   toolVars, sinkVars, nSet, cachedSession, endSeen>>

\* ---------------------------------------------------- REST: end_session
\* An end_session that answers 404 for a session that has ended already.
session_found_active(state) == state = "active"

\* `if not session: raise HTTPException(404)` on what db.get_session returned.
session_found(state) == state /= "none"

\* POST /sessions/{id}/end, at any moment: 404 when there is no record, else
\* db.update_session_state(session_id, "ended") and cache.delete of the
\* session's two keys (the marker is deleted, though not by the run).
end_session ==
    /\ \E ok \in BOOLEAN :
        IF ~session_found(dbState)
        THEN /\ lastEnd' = Ended("rest", "none", ok)
             /\ UNCHANGED <<dbState, marker, cachedSession>>
        ELSE /\ lastEnd' = Ended("rest", dbState, ok)
             /\ dbState' = update_session_state(ok)
             /\ marker' = IF ok THEN FALSE ELSE marker
             /\ cachedSession' = IF ok THEN "none" ELSE cachedSession
    /\ UNCHANGED <<handlerVars, taskVars, wireVars, clientVars, modelVars,
                   toolVars, sinkVars, nSet, nClear, endSeen>>

\* ---------------------------------------------------- REST: get_session
\* The state in the SessionInfo that GET /sessions/{id} answers with: the
\* cached entry when there is one, else the stored record ("none": 404).
session_info == IF cachedSession /= "none" THEN cachedSession ELSE dbState

\* GET /sessions/{id}, at any moment: a cached entry is returned as it is;
\* otherwise the stored record is fetched and, when there is one, cached.
get_session ==
    /\ cachedSession' = session_info
    /\ UNCHANGED <<handlerVars, taskVars, wireVars, clientVars, modelVars,
                   toolVars, sinkVars, marker, nSet, nClear, dbState, lastEnd,
                   endSeen>>

\* ---------------------------------------------------------------- client
\* What websocket.receive() returns: a dict holding the key 'bytes' or 'text'.
Data(key, bytes, text) == [key |-> key, bytes |-> bytes, text |-> text]

TextEnd == "{\"type\":\"end\"}"
TextOther == "{\"type\":\"ping\"}"
TextBad == "end"

\* The binary frames the client may send (sequences of byte values).
Frames == {<<>>, <<77>>}

ClientMsgs ==
    {Data("bytes", f, "") : f \in Frames}
        \cup {Data("text", <<>>, t) : t \in {TextEnd, TextOther, TextBad}}

\* The client sends a frame or a control message.  Only the relay reads the
\* connection, in the order of arrival, and it exists while the coordinator
\* awaits the gather; a message is taken to arrive when the ones before it
\* have been read.
ClientSend ==
    /\ clientOpen
    /\ hpc = "gather"
    /\ clientQ = <<>>
    /\ nInputs < MaxInputs
    /\ \E m \in ClientMsgs : clientQ' = Append(clientQ, m)
    /\ nInputs' = nInputs + 1
    /\ UNCHANGED <<handlerVars, taskVars, wireVars, clientOpen, nToolUse,
                   toolVars, sinkVars, storeVars, endSeen>>

\* The client goes away without an end signal.  The connection is used by
\* the two tasks and by the handler's except clause; a disconnect at any
\* other moment is noticed there.
ClientDisconnect ==
    /\ clientOpen
    /\ hpc \in {"gather", "except"}
    /\ clientOpen' = FALSE
    /\ UNCHANGED <<handlerVars, taskVars, wireVars, clientQ,
                   modelVars, toolVars, sinkVars, storeVars, endSeen>>

\* ----------------------------------------------------------- input relay
\* json.loads on the control texts, then control.get('type').
json_loads(text) ==
    CASE text = TextEnd -> [ok |-> TRUE, type |-> "end"]
      [] text = TextOther -> [ok |-> TRUE, type |-> "ping"]
      [] OTHER -> [ok |-> FALSE, type |-> ""]

\* A generator that skips {"type":"end"} like any other control message.
audio_input_stream_no_end(data) ==
    IF data.key = "bytes" THEN "yield"
    ELSE IF data.key = "text"
    THEN IF ~json_loads(data.text).ok THEN "break" ELSE "continue"
    ELSE "continue"

\* One iteration of the generator's loop on a received message: a binary
\* frame is yielded, {"type":"end"} breaks, any other control message is
\* skipped, and an exception (text that is not JSON) breaks.
audio_input_stream(data) ==
    IF data.key = "bytes" THEN "yield"
    ELSE IF data.key = "text"
    THEN IF ~json_loads(data.text).ok THEN "break"
         ELSE IF json_loads(data.text).type = "end" THEN "break"
         ELSE "continue"
    ELSE "continue"

B64Alphabet ==
    <<"A","B","C","D","E","F","G","H","I","J","K","L","M","N","O","P",
      "Q","R","S","T","U","V","W","X","Y","Z","a","b","c","d","e","f",
      "g","h","i","j","k","l","m","n","o","p","q","r","s","t","u","v",
      "w","x","y","z","0","1","2","3","4","5","6","7","8","9","+","/">>

B64Char(n) == B64Alphabet[n + 1]

RECURSIVE b64encode(_)
\* base64.b64encode(audio_chunk).decode('utf-8'), as a sequence of characters.
b64encode(bs) ==
    IF Len(bs) = 0 THEN <<>>
    ELSE IF Len(bs) = 1
    THEN <<B64Char(bs[1] \div 4), B64Char((bs[1] % 4) * 16), "=", "=">>
    ELSE IF Len(bs) = 2
    THEN <<B64Char(bs[1] \div 4),
           B64Char((bs[1] % 4) * 16 + bs[2] \div 16),
           B64Char((bs[2] % 16) * 4), "=">>
    ELSE <<B64Char(bs[1] \div 4),
           B64Char((bs[1] % 4) * 16 + bs[2] \div 16),
           B64Char((bs[2] % 16) * 4 + bs[3] \div 64),
           B64Char(bs[3] % 64)>> \o b64encode(SubSeq(bs, 4, Len(bs)))

audio_input(chunk) ==
    Ev("audioInput", "", audio_content_name, 0, b64encode(chunk))

\* `if audio_chunk:` an empty frame is falsy and is not forwarded.
Forwarded(chunk) == chunk /= <<>>

\* await websocket.receive() returns a message; the generator handles it and,
\* for a yielded frame, _process_audio_input starts the audioInput send.
RelayReceive ==
    /\ ipc = "recv"
    /\ clientQ /= <<>>
    /\ clientQ' = Tail(clientQ)
    /\ LET data == Head(clientQ)
           step == audio_input_stream(data)
       IN /\ endSeen' = (endSeen \/ (data.key = "text"
                                     /\ json_loads(data.text).type = "end"))
          /\ IF step = "yield" /\ Forwarded(data.bytes)
             THEN /\ SendBegin("input", audio_input(data.bytes))
                  /\ ipc' = "sending"
             ELSE /\ ipc' = IF step = "break" THEN "done" ELSE "recv"
                  /\ UNCHANGED wireVars
    /\ UNCHANGED <<handlerVars, opc, clientOpen, modelVars,
                   toolVars, sinkVars, storeVars>>

\* The connection is closed and nothing is left to receive: receive()
\* raises (WebSocketDisconnect, or RuntimeError on the call after the
\* disconnect message); either except clause breaks the loop.
RelayDisconnected ==
    /\ ipc = "recv"
    /\ clientQ = <<>>
    /\ ~clientOpen
    /\ ipc' = "done"
    /\ UNCHANGED <<handlerVars, opc, wireVars, clientVars, modelVars,
                   toolVars, sinkVars, storeVars, endSeen>>

\* The audioInput send completes; if it raises, the task ends with the
\* exception (nothing in _process_audio_input catches it).
RelaySendEnd ==
    /\ ipc = "sending"
    /\ inflight' = inflight \ {"input"}
    /\ \E ok \in BOOLEAN : ipc' = IF ok THEN "recv" ELSE "raised"
    /\ UNCHANGED <<handlerVars, opc, sent, clientVars, modelVars, toolVars,
                   sinkVars, storeVars, endSeen>>

\* ----------------------------------------------------------------- model
\* A payload of the model's output stream.  wf: the payload has the fields
\* the handler of its kind reads (for a toolUse: its content is valid JSON).
MEv(kind, wf, type, tuid) ==
    [kind |-> kind, wf |-> wf, type |-> type, tuid |-> tuid]

ToolName == "gmail_search"
ToolInput == "{\"q\":\"x\"}"
ToolInputBad == "{q"

\* The payloads the model may emit next; n is the identifier of a toolUse.
ModelEvents(n) ==
    {MEv("audioOutput", wf, "", 0) : wf \in BOOLEAN}
        \cup {MEv("toolUse", wf, "", n) : wf \in BOOLEAN}
        \cup {MEv("contentEnd", TRUE, t, 0) : t \in {"TOOL", "TEXT"}}
        \cup {MEv("textOutput", wf, "", 0) : wf \in BOOLEAN}
        \cup {MEv(k, TRUE, "", 0) :
                k \in {"completionEnd", "usageEvent", "noEvent", "badJson", "empty"}}

\* ----------------------------------------------------- output dispatcher
\* A chain whose contentEnd branch does not look at the type.
Branch_any_content_end(e) ==
    CASE e.kind = "empty" -> "skip"
      [] e.kind = "badJson" -> "raise"
      [] e.kind = "noEvent" -> "skip"
      [] e.kind = "audioOutput" -> "audioOutput"
      [] e.kind = "toolUse" -> "toolUse"
      [] e.kind = "contentEnd" -> "toolEnd"
      [] e.kind = "textOutput" -> "textOutput"
      [] e.kind = "completionEnd" -> "break"
      [] OTHER -> "skip"

\* The branch of the if/elif chain a payload takes (tested in this order).
Branch(e) ==
    CASE e.kind = "empty" -> "skip"
      [] e.kind = "badJson" -> "raise"
      [] e.kind = "noEvent" -> "skip"
      [] e.kind = "audioOutput" -> "audioOutput"
      [] e.kind = "toolUse" -> "toolUse"
      [] e.kind = "contentEnd" /\ e.type = "TOOL" -> "toolEnd"
      [] e.kind = "textOutput" -> "textOutput"
      [] e.kind = "completionEnd" -> "break"
      [] OTHER -> "skip"

\* `output = await stream_response.await_output()` and `receive()` return
\* the payload e the model emits next (the n-th toolUse has identifier n).
Received(branch, e) ==
    /\ opc = "await"
    /\ nInputs < MaxInputs
    /\ Branch(e) = branch
    /\ nInputs' = nInputs + 1
    /\ nToolUse' = IF e.kind = "toolUse" THEN nToolUse + 1 ELSE nToolUse

\* await websocket.send_bytes / send_json inside the dispatcher's try block:
\* delivered while the client is connected; on a closed connection the
\* send raises (except Exception: break) or is dropped by the server.
NotifyClient(msg) ==
    \/ /\ clientOpen
       /\ toClient' = Append(toClient, msg)
       /\ opc' = "await"
    \/ /\ ~clientOpen
       /\ UNCHANGED toClient
       /\ \E raises \in BOOLEAN : opc' = IF raises THEN "done" ELSE "await"

\* No payload bytes, a payload without 'event', an unrecognized kind, a
\* contentEnd whose type is not TOOL: the loop goes on.
Skipped(e) ==
    /\ Received("skip", e)
    /\ UNCHANGED <<handlerVars, taskVars, wireVars, clientVars, toolVars,
                   sinkVars, storeVars, endSeen>>

OnSkipped == \E e \in ModelEvents(nToolUse + 1) : Skipped(e)

\* json.loads(response_data) raises on payload e: except Exception: log,
\* break.
Undecodable(e) ==
    /\ Received("raise", e)
    /\ opc' = "done"
    /\ UNCHANGED <<handlerVars, ipc, wireVars, clientVars, toolVars,
                   sinkVars, storeVars, endSeen>>

OnUndecodable == \E e \in ModelEvents(nToolUse + 1) : Undecodable(e)

\* audioOutput: event['audioOutput']['content'] (KeyError when missing:
\* break), b64decode, await websocket.send_bytes.
AudioOutput(e) ==
    /\ Received("audioOutput", e)
    /\ IF e.wf
       THEN NotifyClient(ClientMsg("audio", None, None, 0))
       ELSE opc' = "done" /\ UNCHANGED toClient
    /\ UNCHANGED <<handlerVars, ipc, wireVars, clientVars, toolVars,
                   records, turns, storeVars, endSeen>>

OnAudioOutput == \E e \in ModelEvents(nToolUse + 1) : AudioOutput(e)

\* json.loads(tool_content.get('content', '{}'))
tool_input_ok(content) == content = ToolInput

\* toolUse: the three locals are assigned, then tool_call_start is sent
\* with the parsed input; content that is not JSON raises after the
\* assignment (break).
ToolUse(e) ==
    /\ Received("toolUse", e)
    /\ tool_use_id' = e.tuid
    /\ tool_name' = ToolName
    /\ tool_content' = IF e.wf THEN ToolInput ELSE ToolInputBad
    /\ IF tool_input_ok(tool_content')
       THEN NotifyClient(ClientMsg("tool_call_start", tool_name', None, 0))
       ELSE opc' = "done" /\ UNCHANGED toClient
    /\ UNCHANGED <<handlerVars, ipc, wireVars, clientVars, result, nToolNames,
                   records, turns, storeVars, endSeen>>

OnToolUse == \E e \in ModelEvents(nToolUse + 1) : ToolUse(e)

\* Truthiness of a str-or-None local (`if tool_name and tool_content`).
Truthy(x) == x \notin {None, ""}

\* What the gateway call of one tool invocation may meet: the OAuth token
\* cannot be fetched, the HTTP request fails, the response carries an MCP
\* error, or it carries a result, which may be the empty object.
GatewayOutcomes ==
    {"token_failure", "http_error", "mcp_error", "ok", "ok_empty_result"}

\* GatewayClient._call_mcp: returns result.get("result", {}) or raises
\* (exc: None when it returns, else str(e) of the exception, whose wording
\* is left out).
call_mcp(outcome) ==
    CASE outcome = "ok" -> [exc |-> None, value |-> "data"]
      [] outcome = "ok_empty_result" -> [exc |-> None, value |-> "{}"]
      [] OTHER -> [exc |-> "error", value |-> None]

\* time.time() read before and after the gateway call: the difference of
\* the two readings in ms.  time.time() is the wall clock, which the system
\* may set back between the readings.
Elapsed == {-MaxLatency, MaxLatency}

\* An invoke_tool without its except clause.
invoke_tool_unguarded(outcome, elapsed) ==
    IF call_mcp(outcome).exc = None
    THEN [raised |-> FALSE, success |-> TRUE, result |-> call_mcp(outcome).value,
          error |-> None, latency_ms |-> elapsed]
    ELSE [raised |-> TRUE, success |-> FALSE, result |-> None,
          error |-> call_mcp(outcome).exc, latency_ms |-> 0]

\* GatewayClient.invoke_tool: try _call_mcp, except Exception; the returned
\* dict (raised: an exception leaves invoke_tool instead; an absent key is
\* None).
invoke_tool(outcome, elapsed) ==
    IF call_mcp(outcome).exc = None
    THEN [raised |-> FALSE, success |-> TRUE, result |-> call_mcp(outcome).value,
          error |-> None, latency_ms |-> elapsed]
    ELSE [raised |-> FALSE, success |-> FALSE, result |-> None,
          error |-> call_mcp(outcome).exc, latency_ms |-> elapsed]

\* result.get("result", {})
result_get(r) == IF r.result = None THEN "{}" ELSE r.result

\* tool_result_content_name = str(uuid.uuid4()): the k-th fresh name.
ToolResultName(k) == audio_content_name + k

\* A tool-result block that is opened as a second AUDIO content.
tool_content_start_audio(name, tuid) == Ev("contentStart", "AUDIO", name, tuid, <<>>)

tool_content_start(name, tuid) == Ev("contentStart", "TOOL", name, tuid, <<>>)
tool_result(name, r) == Ev("toolResult", "", name, 0, <<result_get(r)>>)
tool_content_end(name) == Ev("contentEnd", "", name, 0, <<>>)

\* The item db.add_tool_call puts (tuid: the tool use it was made for).
ToolCallItem(tuid, name, input, r) ==
    [tuid |-> tuid, tool_name |-> name, input |-> input, output |-> result_get(r),
     latency_ms |-> r.latency_ms,
     status |-> IF r.success THEN "success" ELSE "failed"]

\* contentEnd of type TOOL: when the tool locals are set, the tool is
\* invoked (an exception would end the loop), the call is stored (put_item
\* may raise: break) and the result block is started.  The locals are left
\* as they are.
ToolEnd(e) ==
    /\ Received("toolEnd", e)
    /\ IF Truthy(tool_name) /\ Truthy(tool_content)
       THEN \E outcome \in GatewayOutcomes, elapsed \in Elapsed, stored \in BOOLEAN :
              /\ result' = invoke_tool(outcome, elapsed)
              /\ IF stored /\ ~result'.raised
                 THEN /\ records' = Append(records,
                              ToolCallItem(tool_use_id, tool_name, tool_content, result'))
                      /\ nToolNames' = nToolNames + 1
                      /\ SendBegin("output",
                              tool_content_start(ToolResultName(nToolNames'), tool_use_id))
                      /\ opc' = "tr1"
                 ELSE /\ opc' = "done"
                      /\ UNCHANGED <<records, nToolNames, wireVars>>
       ELSE UNCHANGED <<result, records, nToolNames, wireVars, opc>>
    /\ UNCHANGED <<handlerVars, ipc, clientVars, tool_use_id, tool_name,
                   tool_content, toClient, turns, storeVars, endSeen>>

OnToolEnd == \E e \in ModelEvents(nToolUse + 1) : ToolEnd(e)

\* A send of _send_tool_result completes: the next event of the block is
\* sent, and after the last one tool_call_end goes to the client.  A send
\* that raises ends the loop (except Exception: break).
ToolSendEnd ==
    /\ opc \in {"tr1", "tr2", "tr3"}
    /\ \E ok \in BOOLEAN :
        IF ~ok
        THEN /\ opc' = "done"
             /\ inflight' = inflight \ {"output"}
             /\ UNCHANGED <<sent, toClient, result>>
        ELSE IF opc = "tr1"
        THEN /\ sent' = Append(sent, tool_result(ToolResultName(nToolNames), result))
             /\ opc' = "tr2"
             /\ UNCHANGED <<inflight, toClient, result>>
        ELSE IF opc = "tr2"
        THEN /\ sent' = Append(sent, tool_content_end(ToolResultName(nToolNames)))
             /\ opc' = "tr3"
             /\ UNCHANGED <<inflight, toClient, result>>
        ELSE /\ inflight' = inflight \ {"output"}
             /\ NotifyClient(ClientMsg("tool_call_end", tool_name,
                                       result_get(result), result.latency_ms))
             /\ result' = NoResult
             /\ UNCHANGED sent
    /\ UNCHANGED <<handlerVars, ipc, clientVars, modelVars, tool_use_id,
                   tool_name, tool_content, nToolNames, records, turns,
                   storeVars, endSeen>>

\* A lower() that leaves the role as the event carries it.
lower_identity(role) == role

\* role.lower()
lower(role) ==
    CASE role = "ASSISTANT" -> "assistant"
      [] role = "USER" -> "user"
      [] OTHER -> role

\* textOutput: a missing field raises KeyError (break); db.add_message puts
\* the turn, and put_item may raise (break).
TextOutput(e) ==
    /\ Received("textOutput", e)
    /\ \E stored \in BOOLEAN :
        IF e.wf /\ stored
        THEN /\ turns' = Append(turns, [role |-> lower("ASSISTANT"),
                                        text |-> "text"])
             /\ UNCHANGED opc
        ELSE /\ opc' = "done"
             /\ UNCHANGED turns
    /\ UNCHANGED <<handlerVars, ipc, wireVars, clientVars, toolVars,
                   toClient, records, storeVars, endSeen>>

OnTextOutput == \E e \in ModelEvents(nToolUse + 1) : TextOutput(e)

\* completionEnd: break.
CompletionEnd(e) ==
    /\ Received("break", e)
    /\ opc' = "done"
    /\ UNCHANGED <<handlerVars, ipc, wireVars, clientVars, toolVars,
                   sinkVars, storeVars, endSeen>>

OnCompletionEnd == \E e \in ModelEvents(nToolUse + 1) : CompletionEnd(e)

\* The model's output stream ends: await_output / receive raises, and both
\* except clauses break.
StreamEnded ==
    /\ opc = "await"
    /\ opc' = "done"
    /\ UNCHANGED <<handlerVars, ipc, wireVars, clientVars, modelVars, toolVars,
                   sinkVars, storeVars, endSeen>>

\* The cancelled tasks run next, one after the other, before the coordinator
\* is resumed: CancelledError is raised at the await each is suspended in.
\* It is not an Exception, so no `except Exception` clause catches it.
Cancelled(pc) == IF pc = "cancelling" THEN "cancelled" ELSE pc

CancelDelivered ==
    /\ "cancelling" \in {ipc, opc}
    /\ ipc' = Cancelled(ipc)
    /\ opc' = Cancelled(opc)
    /\ inflight' = inflight \ {"input", "output"}
    /\ UNCHANGED <<handlerVars, sent, clientVars, modelVars, toolVars,
                   sinkVars, storeVars, endSeen>>

\* --------------------------------------------------------- specification
\* Steps the event loop takes without a new message from a peer.
Unprompted ==
    \/ Accept \/ MarkActive \/ GetTools \/ OpenStream \/ HandshakeSend
    \/ GatherDone \/ TeardownSendEnd \/ HandlerExcept \/ Cleanup
    \/ RelayReceive \/ RelayDisconnected \/ RelaySendEnd \/ ToolSendEnd
    \/ CancelDelivered

\* Steps of the dispatcher that handle the next payload of the model, or the
\* end of its stream.
Prompted ==
    \/ OnSkipped \/ OnUndecodable \/ OnAudioOutput \/ OnToolUse \/ OnToolEnd
    \/ OnTextOutput \/ OnCompletionEnd \/ StreamEnded

\* Steps of the REST client and of the websocket client.
EnvStep == start_session \/ ClientSend \/ ClientDisconnect

Next == Unprompted \/ Prompted \/ EnvStep

Spec == Init /\ [][Next]_vars

\* The event loop runs every task that is ready; nothing obliges the client
\* or the model to send anything.
FairSpec == Spec /\ WF_vars(Unprompted)

\* A session whose peers stay silent (the client at most disconnects, the
\* model at most closes its stream), with the REST client calling
\* end_session and get_session whenever it likes, the websocket possibly opened with a
\* session id that has no record, and no bound on how long the run lasts.
RestNext ==
    \/ start_session \/ end_session \/ get_session \/ MarkerExpires
    \/ Accept \/ AcceptUnknown \/ MarkActive \/ GetTools \/ OpenStream
    \/ HandshakeSend
    \/ ClientDisconnect \/ RelayDisconnected \/ StreamEnded
    \/ GatherDone \/ TeardownSendEnd \/ HandlerExcept \/ Cleanup

RestSpec == Init /\ [][RestNext]_vars

\* A session whose client sends nothing (it may disconnect): every message
\* the run handles is a payload of the model.  Neither task raises then, so
\* the gather resumes when both have finished and cancels nothing.
DispatcherNext ==
    \/ start_session \/ ClientDisconnect
    \/ Accept \/ MarkActive \/ GetTools \/ OpenStream \/ HandshakeSend
    \/ GatherDone \/ TeardownSendEnd \/ HandlerExcept \/ Cleanup
    \/ RelayDisconnected \/ ToolSendEnd
    \/ Prompted

DispatcherSpec == Init /\ [][DispatcherNext]_vars

\* ----------------------------------------------------------------- claims
Has(ev) == \E i \in 1..Len(sent) : sent[i] = ev
Kinds(k) == {i \in 1..Len(sent) : sent[i].kind = k}
RunOver == hpc \in {"returned", "raised"}

\* The opening every session is to send, as the protocol prescribes it.
Opening ==
    <<[kind |-> "sessionStart", type |-> ""],
      [kind |-> "promptStart", type |-> ""],
      [kind |-> "contentStart", type |-> "TEXT"],
      [kind |-> "textInput", type |-> ""],
      [kind |-> "contentEnd", type |-> ""],
      [kind |-> "contentStart", type |-> "AUDIO"]>>

\* C1: the events sent to the model transport begin with sessionStart,
\* promptStart, contentStart(TEXT), textInput, contentEnd,
\* contentStart(AUDIO), in this order: the i-th event sent, for i up to 6,
\* is the i-th event of this opening, whatever is sent afterwards.
C1_OpeningOrder ==
    \A i \in 1..Len(sent) :
        i <= Len(Opening) =>
            /\ sent[i].kind = Opening[i].kind
            /\ sent[i].type = Opening[i].type
            /\ (i \in {3, 4, 5} => sent[i].name = sent[3].name)

\* C1 witness: a session that went on to relay audio and to inject a tool
\* result after its opening.
C1_Witness ==
    /\ Kinds("audioInput") /= {}
    /\ Kinds("toolResult") /= {}
    /\ Has(session_end)

\* The toolResult events sent inside a TOOL block opened for tool use id.
ResultsFor(id) ==
    {i \in Kinds("toolResult") :
        \E j \in 1..(i - 1) : /\ sent[j].kind = "contentStart"
                              /\ sent[j].type = "TOOL"
                              /\ sent[j].tuid = id
                              /\ sent[j].name = sent[i].name}
RecordsFor(id) == {i \in 1..Len(records) : records[i].tuid = id}

\* C2: for every toolUse the dispatcher has observed there is never more
\* than one toolResult block for its id nor more than one stored record,
\* and when the run is over there is exactly one of each.
C2_ExactlyOneResult ==
    \A id \in 1..nToolUse :
        /\ Cardinality(ResultsFor(id)) <= 1
        /\ Cardinality(RecordsFor(id)) <= 1
        /\ RunOver => /\ Cardinality(ResultsFor(id)) = 1
                      /\ Cardinality(RecordsFor(id)) = 1

\* C3: once the client has disconnected while the two tasks run, the session
\* goes on to its teardown without any further event from the model: as long
\* as the coordinator has not left the gather, some step that needs no
\* message from a peer is possible.
C3_TeardownNeedsNoModelEvent ==
    (hpc = "gather" /\ ~clientOpen) => ENABLED Unprompted

\* C4: when one of the two tasks has terminated, the coordinator does not
\* keep waiting: it can leave the gather, cancel the other task and start
\* the teardown.
C4_NoWaitingForOtherTask ==
    (hpc = "gather" /\ (TaskDone(ipc) \/ TaskDone(opc))) => ENABLED GatherDone

\* C5: at no point are two sends in progress on the session's model
\* transport.
C5_SendsSerialized == Cardinality(inflight) <= 1

\* C6: a run that was accepted returns normally: no exception leaves
\* handle_audio_stream.
C6_ReturnsNormally == hpc /= "raised"

\* C7: once the teardown has begun and its sends are over, promptEnd and
\* sessionEnd have been attempted, whichever closing send failed; and a run
\* that began its teardown ends with state 'ended' and the marker cleared.
C7_TeardownGoesOn ==
    /\ (Has(audio_content_end) /\ hpc \notin {"td1", "td2", "td3"})
            => (Has(prompt_end) /\ Has(session_end))
    /\ (Has(audio_content_end) /\ RunOver) => (dbState = "ended" /\ ~marker)

\* C8: a run whose handshake failed after the stream was opened (a handshake
\* send raised, so the tasks were never created) has attempted the three
\* closing events by the time it is over.
C8_TeardownAfterHandshakeFailure ==
    (RunOver /\ sent /= <<>> /\ ipc = "unborn")
        => (Has(audio_content_end) /\ Has(prompt_end) /\ Has(session_end))

\* C9: when a run is over, on whatever path, the session_active marker is
\* cleared and the run has cleared it exactly once.
C9_MarkerClearedOnce == RunOver => (~marker /\ nClear = 1)

\* C10: once the relay has received {"type":"end"} it has terminated, and no
\* step sends a further audioInput, whatever the client sends afterwards.
C10_NothingAfterEnd ==
    [][/\ endSeen' => ipc' = "done"
       /\ endSeen => Kinds("audioInput")' = Kinds("audioInput")]_vars

\* C10 witness: the end signal has been received and a non-empty binary
\* frame the client sent after it is waiting on the connection.
C10_Witness ==
    /\ endSeen
    /\ \E i \in 1..Len(clientQ) :
        clientQ[i].key = "bytes" /\ clientQ[i].bytes /= <<>>

\* The AUDIO contents opened so far, and those of them not closed yet.
AudioStarts == {i \in Kinds("contentStart") : sent[i].type = "AUDIO"}
OpenAudio ==
    {i \in AudioStarts :
        ~\E j \in Kinds("contentEnd") : j > i /\ sent[j].name = sent[i].name}

\* C11: at every point at most one contentStart(AUDIO) has been sent, so
\* at most one is without a matching contentEnd and the audio content is
\* never opened a second time.
C11_AudioOpenedOnce ==
    /\ Cardinality(AudioStarts) <= 1
    /\ Cardinality(OpenAudio) <= 1

\* C11 witness: the audio content was opened and closed again, in a session
\* that also opened a tool-result content in between.
C11_Witness ==
    /\ AudioStarts /= {}
    /\ OpenAudio = {}
    /\ \E i \in Kinds("contentStart") : sent[i].type = "TOOL"

\* The contentEnd events sent after the contentStart at position i with the
\* same contentName, and the contentStart events a contentEnd at j closes.
EndsOf(i) == {j \in Kinds("contentEnd") : j > i /\ sent[j].name = sent[i].name}
StartsOf(j) == {i \in Kinds("contentStart") : i < j /\ sent[i].name = sent[j].name}

\* C12: when the run is over, every contentStart sent has exactly one
\* contentEnd of the same contentName after it, and every contentEnd sent
\* closes a contentStart sent before it.
C12_BlocksPaired ==
    RunOver =>
        /\ \A i \in Kinds("contentStart") : Cardinality(EndsOf(i)) = 1
        /\ \A j \in Kinds("contentEnd") : Cardinality(StartsOf(j)) = 1

\* C13: when the dispatcher processes a toolUse announcement, a toolResult
\* has been sent for every toolUse identifier it processed before.
C13_SingleToolInFlight ==
    [][nToolUse' > nToolUse => \A id \in 1..nToolUse : ResultsFor(id) /= {}]_vars

\* A step that is an end-of-session teardown: an end_session call, or the
\* handler's finally block.
TeardownStep == lastEnd' /= lastEnd \/ (hpc = "cleanup" /\ hpc' /= "cleanup")

\* C14: once a teardown has ended the session (state 'ended', marker
\* absent), a further teardown, by end_session or by the handler's finally
\* block, leaves the state 'ended' and the marker absent, finds the session,
\* and raises nothing unless the store itself fails; the handler then
\* propagates only what its except clause had raised.
C14_EndTwiceIdempotent ==
    [][(dbState = "ended" /\ ~marker /\ TeardownStep) =>
            /\ dbState' = "ended" /\ ~marker'
            /\ lastEnd'.outcome \in {"ok", "store_error"}
            /\ (hpc = "cleanup" /\ hpc' = "raised")
                    => (pendingExc \/ lastEnd'.outcome = "store_error")]_vars

\* C14 witness: the run's finally block ended the session and returned, and
\* an end_session call after it succeeded as well.
C14_Witness ==
    /\ hpc = "returned"
    /\ lastEnd = [by |-> "rest", outcome |-> "ok"]
    /\ dbState = "ended" /\ ~marker

\* C15: whatever the gateway call met, invoke_tool raised nothing to the
\* dispatcher and returned a result holding success and latency_ms, with a
\* result and no error when success is true, and an error and no result
\* when it is false.
C15_InvokeToolNeverRaises ==
    result /= NoResult =>
        /\ ~result.raised
        /\ result.success \in BOOLEAN
        /\ result.latency_ms \in Int
        /\ result.success => (result.result /= None /\ result.error = None)
        /\ ~result.success => (result.error /= None /\ result.result = None)

\* C15 witness: the token fetch failed and the dispatcher holds the failure
\* as a result, in the middle of the round trip.
C15_Witness ==
    /\ opc = "tr1"
    /\ result = invoke_tool("token_failure", MaxLatency)
    /\ ~result.success

\* A tool_call_end notice marks a failure when it differs from every notice
\* sent for a call that succeeded.
MarksFailure(m) ==
    \A o \in GatewayOutcomes, el \in Elapsed :
        invoke_tool(o, el).success =>
            m /= ClientMsg("tool_call_end", m.tool,
                           result_get(invoke_tool(o, el)),
                           invoke_tool(o, el).latency_ms)

\* C16: when the round trip of a failed gateway call notifies the client,
\* a record with status 'failed' has been stored, a toolResult correlated
\* by the tool-use id has been sent, the notice is a tool_call_end that
\* marks the failure, and the dispatcher awaits the next model event.
C16_FailedCallSurfaced ==
    [][(opc = "tr3" /\ ~result.success /\ toClient' /= toClient) =>
            /\ records[Len(records)].status = "failed"
            /\ ResultsFor(tool_use_id) /= {}
            /\ toClient'[Len(toClient')].type = "tool_call_end"
            /\ MarksFailure(toClient'[Len(toClient')])
            /\ opc' = "await"]_vars

\* The tool_call_end notices delivered to the client.
ToolEnds == {i \in 1..Len(toClient) : toClient[i].type = "tool_call_end"}

\* C17: every stored latency_ms is the duration invoke_tool measured and is
\* not negative, and every tool_call_end notice carries the latency_ms of
\* the record stored for that call.
C17_LatencyRecorded ==
    /\ \A i \in 1..Len(records) : records[i].latency_ms >= 0
    /\ opc \in {"tr1", "tr2", "tr3"}
            => records[Len(records)].latency_ms = result.latency_ms
    /\ \A i \in ToolEnds :
            \E j \in 1..Len(records) :
                /\ toClient[i].latency_ms = records[j].latency_ms
                /\ toClient[i].latency_ms >= 0

\* A payload that is malformed: bytes that are not JSON, a toolUse whose
\* content is not JSON, an audioOutput or textOutput lacking a field.
Malformed(e) ==
    \/ e.kind = "badJson"
    \/ e.kind \in {"toolUse", "audioOutput", "textOutput"} /\ ~e.wf

\* C18: the step in which the dispatcher handles a malformed payload leaves
\* it awaiting the next model event: its loop does not end there.
C18_MalformedSkipped ==
    [][\A e \in ModelEvents(nToolUse + 1) :
          (Malformed(e) /\ (Undecodable(e) \/ AudioOutput(e)
                                \/ ToolUse(e) \/ TextOutput(e)))
              => opc' = "await"]_vars

\* C19: while the dispatcher awaits an event and the tool use it last heard
\* of has had its result sent, the tool locals are cleared and no step
\* stores a record or opens a tool-result content for it again.
C19_ToolStateCleared ==
    [][(opc = "await" /\ tool_use_id /= 0 /\ ResultsFor(tool_use_id) /= {}) =>
            /\ tool_name = None /\ tool_content = None
            /\ records' = records
            /\ Kinds("contentStart")' = Kinds("contentStart")]_vars

\* The events the two tasks send: audioInput, and the three events of a
\* tool-result content (named after the audio content's name).
TaskSends ==
    {i \in 1..Len(sent) :
        \/ sent[i].kind \in {"audioInput", "toolResult"}
        \/ sent[i].kind \in {"contentStart", "contentEnd"}
                /\ sent[i].name > audio_content_name}

\* C20: every event a task sent comes after contentStart(AUDIO) and before
\* the teardown's contentEnd of the audio content.
C20_TasksOnlyWhileAudioActive ==
    \A i \in TaskSends :
        /\ \E j \in 1..(i - 1) : sent[j] = audio_content_start
        /\ ~\E k \in 1..(i - 1) : sent[k] = audio_content_end

\* C20 witness: the teardown has begun after both tasks had sent events,
\* and the dispatcher was cancelled in the middle of a tool-result content.
C20_Witness ==
    /\ Has(audio_content_end)
    /\ opc = "cancelled"
    /\ Kinds("audioInput") /= {}
    /\ \E i \in Kinds("contentStart") : sent[i].type = "TOOL" /\ EndsOf(i) = {}

\* The positions at which the event ev was sent.
Where(ev) == {i \in 1..Len(sent) : sent[i] = ev}

\* C21: each closing event is sent at most once, promptEnd after the audio
\* content's contentEnd and sessionEnd after promptEnd; sessionEnd is the
\* last event sent; and a run that started its tasks has its session marked
\* ended only when the three closing sends have been attempted.
C21_ClosingOrder ==
    /\ \A ev \in {audio_content_end, prompt_end, session_end} :
            Cardinality(Where(ev)) <= 1
    /\ \A i \in Where(prompt_end) : \E j \in Where(audio_content_end) : j < i
    /\ \A i \in Where(session_end) : \E j \in Where(prompt_end) : j < i
    /\ \A i \in Where(session_end) : i = Len(sent)
    /\ (dbState = "ended" /\ ipc /= "unborn")
            => (Has(audio_content_end) /\ Has(prompt_end) /\ Has(session_end))

\* C22: the step in which the relay receives a binary frame, empty or not,
\* sends one audioInput carrying the base64 encoding of that frame, next
\* after the events sent before.
C22_EveryFrameForwarded ==
    [][(ipc = "recv" /\ clientQ /= <<>> /\ clientQ' = Tail(clientQ)
            /\ Head(clientQ).key = "bytes")
        => sent' = Append(sent, Ev("audioInput", "", audio_content_name, 0,
                                   b64encode(Head(clientQ).bytes)))]_vars

\* C23: the marker is set at most once by a run, and only by a run whose
\* handshake has succeeded, so that its tasks have been started.
C23_MarkerSetOnAudioActive ==
    /\ nSet <= 1
    /\ nSet > 0 => ipc /= "unborn"

\* A tool-result content for tool use id has been sent whole, the latest of
\* them: contentStart(TOOL) carrying id, then toolResult, then contentEnd,
\* under one contentName that no other content was started with.
BlockSentFor(id) ==
    \E i, j, k \in 1..Len(sent) :
        /\ i < j /\ j < k
        /\ sent[i].kind = "contentStart" /\ sent[i].type = "TOOL"
        /\ sent[i].tuid = id
        /\ sent[j].kind = "toolResult" /\ sent[j].name = sent[i].name
        /\ sent[k].kind = "contentEnd" /\ sent[k].name = sent[i].name
        /\ \A m \in Kinds("contentStart") : m /= i => sent[m].name /= sent[i].name
        /\ \A m \in Kinds("contentStart") : m <= i

\* C24: the step that invokes the tool starts the tool-result content with
\* the captured toolUseId, whether or not the record could be stored; a
\* record is stored in that step only; and tool_call_end goes to the client
\* when the three events of the content have been sent.
C24_RoundTripOrder ==
    [][/\ (opc = "await" /\ result' /= NoResult) =>
            /\ opc' = "tr1"
            /\ Len(sent') = Len(sent) + 1
            /\ sent'[Len(sent')].kind = "contentStart"
            /\ sent'[Len(sent')].type = "TOOL"
            /\ sent'[Len(sent')].tuid = tool_use_id
       /\ records' /= records => (opc = "await" /\ result' /= NoResult)
       /\ (toClient' /= toClient
                /\ toClient'[Len(toClient')].type = "tool_call_end")
            => (opc = "tr3" /\ BlockSentFor(tool_use_id))]_vars

\* C25: when the run of a session is over, whatever the exit path, the stored
\* state of the session is 'ended'; when the session id has no stored record
\* the cleanup still completes, so the handler raises only what its except
\* clause raised.
C25_EndedOnEveryExit ==
    RunOver =>
        /\ dbState /= "none" => dbState = "ended"
        /\ dbState = "none" => (hpc = "raised" => pendingExc)

\* The turn db.add_message puts for a textOutput whose role is ASSISTANT.
TurnOf(e) == [role |-> "assistant", text |-> "text"]

Unrecognized(e) ==
    \/ e.kind \in {"noEvent", "usageEvent"}
    \/ e.kind = "contentEnd" /\ e.type /= "TOOL"

\* The dispatcher handles payload e in this step, whatever branch it takes.
Handles(e) ==
    \/ Skipped(e) \/ Undecodable(e) \/ AudioOutput(e) \/ ToolUse(e)
    \/ ToolEnd(e) \/ TextOutput(e) \/ CompletionEnd(e)

\* C27: the step in which the dispatcher handles an unrecognized payload
\* sends nothing to the model transport or to the client, stores no record
\* and no turn, leaves the pending tool-use state as it is, and leaves the
\* dispatcher awaiting the next payload.
C27_UnrecognizedIgnored ==
    [][\A e \in ModelEvents(nToolUse + 1) :
            (Unrecognized(e) /\ Handles(e))
                => /\ UNCHANGED <<wireVars, sinkVars, toolVars>>
                   /\ opc' = "await"]_vars

\* With a tool use pending and announced to the connected client, a second
\* payload has been handled that left no trace, and the dispatcher awaits
\* the next one.
C27_Witness ==
    /\ nInputs = 2
    /\ nToolUse = 1
    /\ tool_use_id = 1
    /\ tool_name = ToolName
    /\ clientOpen
    /\ Len(toClient) = 1
    /\ records = <<>>
    /\ turns = <<>>
    /\ opc = "await"

\* C28: while the audio stream of the session is live, from the completed
\* contentStart(AUDIO) to the start of the teardown, the session_active
\* marker is set: neither end_session nor the marker's time to live clears
\* it in that interval.
C28_MarkerWhileLive == hpc = "gather" => marker

\* C29: once the stored state of the session is 'ended', whether the handler's
\* cleanup or end_session ended it, GET /sessions/{id} answers with the state
\* 'ended': the cached entry is never older than the stored record.
C29_GetSessionReportsEnded == dbState = "ended" => session_info = "ended"

====
